---- MODULE Spec2Model ----
(***************************************************************************)
(* Coined quantum walk (hiperwalk): the configuration slots of a Coined    *)
(* walk (shift, coin, oracle), the memoized evolution operator, the shift  *)
(* builders over a graph's arc labels, and the stepped simulation.         *)
(*                                                                         *)
(* Python lists are sequences (1-based); vertices and arc labels keep the  *)
(* code's 0-based numbering, so element i of a list l is l[i + 1].         *)
(***************************************************************************)
EXTENDS Integers, Sequences, FiniteSets, TLC

VARIABLES graph, nbl, shift, coin, oracle_coin, marked, evolution, last, ret,
          psi, step, psi0, trace, remote

vars == <<graph, nbl, shift, coin, oracle_coin, marked, evolution, last, ret,
          psi, step, psi0, trace, remote>>

\* ------------------------------------------------------------------ bounds
\* Largest cycle of the configuration state machine.
MaxCycle == 3
\* Largest number of vertices in a list passed to set_marked.
MaxMarked == 1
\* Largest cycle of the simulation runs.
MaxSimCycle == 10
\* keys of a dict given to set_coin
MaxKeys == 3
\* entries given to state()
MaxEntries == 3
\* largest num_steps given to simulate
MaxSteps == 3
\* the engine calls of an operation that may raise: the first MaxFail
MaxFail == 4

\* ------------------------------------------------------------ list helpers
At(l, i) == l[i + 1]

Range0(n) == 0 .. (n - 1)

RECURSIVE SumSeq(_)
SumSeq(s) == IF s = <<>> THEN 0 ELSE Head(s) + SumSeq(Tail(s))

RECURSIVE Flatten(_)
Flatten(ss) == IF ss = <<>> THEN <<>> ELSE Head(ss) \o Flatten(Tail(ss))

RECURSIVE SetToSeq(_)
\* the elements of a finite set of integers, ascending
SetToSeq(S) ==
    IF S = {} THEN <<>>
    ELSE LET m == CHOOSE x \in S : \A y \in S : x <= y
         IN <<m>> \o SetToSeq(S \ {m})

IndexOf(l, x) == CHOOSE i \in Range0(Len(l)) : At(l, i) = x

\* -------------------------------------------------------------- amplitudes
\* An amplitude is an exact complex number in polar form <<n, d, p, q>>:
\* squared magnitude n/d and phase p/q of a full turn, both in lowest terms;
\* zero is <<0, 1, 0, 1>>.  Equal numbers have equal representations.
RECURSIVE GCD(_, _)
GCD(a, b) == IF b = 0 THEN a ELSE GCD(b, a % b)

Amp(n, d, p, q) ==
    IF n = 0 THEN <<0, 1, 0, 1>>
    ELSE LET g == GCD(n, d)
             pp == p % q
             h == GCD(pp, q)
         IN <<n \div g, d \div g, pp \div h, q \div h>>

Zero == Amp(0, 1, 0, 1)
One == Amp(1, 1, 0, 1)
\* the positive integer k
IntAmp(k) == Amp(k * k, 1, 0, 1)

AmpNeg(a) == Amp(a[1], a[2], 2 * a[3] + a[4], 2 * a[4])

AmpMul(a, b) == Amp(a[1] * b[1], a[2] * b[2], a[3] * b[4] + b[3] * a[4], a[4] * b[4])

\* a function on 1 .. n as the explicit tuple of its values
AsTuple(f) == <<>> \o f

\* What stands for a sum this representation cannot hold.
Unrepresented == <<-1, 1, 0, 1>>

RECURSIVE Root(_, _)
\* the least r0 >= r with r0 * r0 >= n
Root(n, r) == IF r * r >= n THEN r ELSE Root(n, r + 1)

\* a real rational amplitude: phase 0 or 1/2, squared magnitude a square
IsRational(a) ==
    /\ a[1] >= 0
    /\ a[4] \in {1, 2}
    /\ Root(a[1], 0) * Root(a[1], 0) = a[1]
    /\ Root(a[2], 0) * Root(a[2], 0) = a[2]

\* the real rational n/d, n signed
FromSigned(n, d) == IF n >= 0 THEN Amp(n * n, d * d, 0, 1) ELSE Amp(n * n, d * d, 1, 2)

\* Amplitude sum: exact when an operand is zero and when both are real
\* rationals.
AmpAdd(a, b) ==
    IF a = Zero THEN b
    ELSE IF b = Zero THEN a
    ELSE IF IsRational(a) /\ IsRational(b)
    THEN LET an == (IF a[3] = 0 THEN 1 ELSE -1) * Root(a[1], 0)
             ad == Root(a[2], 0)
             bn == (IF b[3] = 0 THEN 1 ELSE -1) * Root(b[1], 0)
             bd == Root(b[2], 0)
         IN FromSigned(an * bd + bn * ad, ad * bd)
    ELSE Unrepresented

RECURSIVE RowDot(_, _, _)
\* sum over j < n of row[j] * x[j]
RowDot(row, x, n) ==
    IF n = 0 THEN Zero
    ELSE AmpAdd(RowDot(row, x, n - 1), AmpMul(row[n], x[n]))

\* U @ x
MatVec(U, x) == AsTuple([i \in 1 .. U.nr |-> RowDot(U.e[i], x, U.nc)])

\* ---------------------------------------------------------------- matrices
\* A matrix is [nr, nc, e]: e is the sequence of its nr rows of nc entries.
Mat(nr, nc, Entry(_, _)) ==
    [nr |-> nr, nc |-> nc,
     e |-> [i \in 1 .. nr |-> [j \in 1 .. nc |-> Entry(i - 1, j - 1)]]]

MatAt(M, i, j) == M.e[i + 1][j + 1]

\* a call that raised, and Python's None, among matrices
ErrMat == [nr |-> -1, nc |-> -1, e |-> <<>>]
NoneMat == [nr |-> -2, nc |-> -2, e |-> <<>>]

IsMatrix(M) == M.nr >= 0

\* M[start:end, start:end] with Python's clamping of slice bounds
Slice(M, start, end) ==
    LET r0 == IF start > M.nr THEN M.nr ELSE start
        r1 == IF end > M.nr THEN M.nr ELSE end
        c0 == IF start > M.nc THEN M.nc ELSE start
        c1 == IF end > M.nc THEN M.nc ELSE end
        nr == IF r1 > r0 THEN r1 - r0 ELSE 0
        nc == IF c1 > c0 THEN c1 - c0 ELSE 0
        E(i, j) == MatAt(M, r0 + i, c0 + j)
    IN Mat(nr, nc, E)

RECURSIVE Offsets(_, _)
\* Offsets(sizes, k): the sum of the first k sizes
Offsets(sizes, k) == IF k = 0 THEN 0 ELSE Offsets(sizes, k - 1) + sizes[k]

\* scipy.sparse.block_diag: the blocks along the diagonal, zero elsewhere
BlockDiag(blocks) ==
    IF \E k \in 1 .. Len(blocks) : ~IsMatrix(blocks[k]) THEN ErrMat
    ELSE
    LET nb == Len(blocks)
        bs == AsTuple(blocks)
        roff == AsTuple([k \in 1 .. nb + 1 |->
                           Offsets([m \in 1 .. nb |-> bs[m].nr], k - 1)])
        coff == AsTuple([k \in 1 .. nb + 1 |->
                           Offsets([m \in 1 .. nb |-> bs[m].nc], k - 1)])
        \* the block a row runs through
        rblk == AsTuple([i \in 1 .. roff[nb + 1] |->
                           CHOOSE k \in 1 .. nb : roff[k] < i /\ i <= roff[k + 1]])
        E(i, j) ==
            LET k == rblk[i + 1]
            IN IF coff[k] <= j /\ j < coff[k + 1]
               THEN MatAt(bs[k], i - roff[k], j - coff[k])
               ELSE Zero
    IN Mat(roff[nb + 1], coff[nb + 1], E)

\* ------------------------------------------------------------ coin catalogue
CoinNames == {"fourier", "grover", "hadamard", "identity",
              "minus_fourier", "minus_grover", "minus_hadamard", "minus_identity"}

RECURSIVE IsPow2(_)
IsPow2(d) == d = 1 \/ (d > 1 /\ d % 2 = 0 /\ IsPow2(d \div 2))

RECURSIVE AndParity(_, _)
\* parity of the number of bit positions set in both i and j
AndParity(i, j) ==
    IF i = 0 \/ j = 0 THEN 0
    ELSE ((i % 2) * (j % 2) + AndParity(i \div 2, j \div 2)) % 2

MatNeg(M) ==
    IF ~IsMatrix(M) THEN M
    ELSE LET E(i, j) == AmpNeg(MatAt(M, i, j)) IN Mat(M.nr, M.nc, E)

\* dft(dim, scale='sqrtn'): entry (i, j) is exp(-2 pi I i j / dim) / sqrt(dim)
fourier_coin(dim) ==
    LET E(i, j) == Amp(1, dim, dim - ((i * j) % dim), dim) IN Mat(dim, dim, E)

\* 2/dim * ones - identity
grover_coin(dim) ==
    LET E(i, j) == IF i = j
                   THEN Amp((2 - dim) * (2 - dim), dim * dim,
                            IF dim > 2 THEN 1 ELSE 0, 2)
                   ELSE Amp(4, dim * dim, 0, 1)
    IN Mat(dim, dim, E)

\* hadamard(dim) / sqrt(dim); scipy's hadamard raises unless dim is a power of 2
hadamard_coin(dim) ==
    IF ~IsPow2(dim) THEN ErrMat
    ELSE LET E(i, j) == Amp(1, dim, AndParity(i, j), 2) IN Mat(dim, dim, E)

identity_coin(dim) ==
    LET E(i, j) == IF i = j THEN One ELSE Zero IN Mat(dim, dim, E)

minus_fourier_coin(dim) == MatNeg(fourier_coin(dim))
minus_grover_coin(dim) == MatNeg(grover_coin(dim))
minus_hadamard_coin(dim) == MatNeg(hadamard_coin(dim))
minus_identity_coin(dim) == MatNeg(identity_coin(dim))

\* Coined._coin_funcs[name](dim)
coin_funcs(name, dim) ==
    CASE name = "fourier" -> fourier_coin(dim)
      [] name = "grover" -> grover_coin(dim)
      [] name = "hadamard" -> hadamard_coin(dim)
      [] name = "identity" -> identity_coin(dim)
      [] name = "minus_fourier" -> minus_fourier_coin(dim)
      [] name = "minus_grover" -> minus_grover_coin(dim)
      [] name = "minus_hadamard" -> minus_hadamard_coin(dim)
      [] name = "minus_identity" -> minus_identity_coin(dim)

\* ------------------------------------------------------------------- graphs
\* A graph is [kind, nbrs]: nbrs[v + 1] is neighbors(v) in the order the graph
\* reports it.  kind "cycle" is hiperwalk.graph.Cycle, kind "graph" the
\* general Graph built from an adjacency matrix.
number_of_vertices(g) == Len(g.nbrs)

neighbors(g, v) == At(g.nbrs, v)

degree(g, v) == Len(neighbors(g, v))

number_of_arcs(g) == SumSeq([k \in 1 .. Len(g.nbrs) |-> Len(g.nbrs[k])])

RECURSIVE indptr(_, _)
\* number of arcs whose tail is smaller than v
indptr(g, v) == IF v = 0 THEN 0 ELSE indptr(g, v - 1) + degree(g, v - 1)

arcs_with_tail(g, v) == indptr(g, v) .. (indptr(g, v + 1) - 1)

\* Cycle.__init__: vertex v is adjacent to v + 1 and v - 1 (mod num_vert);
\* order is the order in which neighbors(v) lists the two.
Cycle(num_vert, order) ==
    [kind |-> "cycle",
     nbrs |-> [k \in 1 .. num_vert |->
                 LET v == k - 1
                     r == (v + 1) % num_vert
                     l == (v - 1) % num_vert
                 IN IF order = "ascending" /\ l < r THEN <<l, r>> ELSE <<r, l>>]]

Graph(adj) == [kind |-> "graph", nbrs |-> adj]

embeddable(g) == g.kind = "cycle"

default_coin(g) == IF g.kind = "cycle" THEN "hadamard" ELSE "grover"

\* arc_label of a general graph raising: what stands for the label of a pair
\* (tail, head) that is no arc when the lookup raises
ArcLabelRaises == -2

\* arc_label of a cycle without the arc from the last vertex to vertex 0
arc_label_no_wrap(g, tail, head) ==
    IF head - tail = 1 THEN 2 * tail ELSE 2 * tail + 1

\* Of a pair (tail, head) that is no arc of a general graph the label is
\* g.nonarc: ArcLabelRaises, or the integer the lookup returns.
arc_label(g, tail, head) ==
    IF g.kind = "cycle"
    THEN LET num_vert == number_of_vertices(g)
         IN IF head - tail = 1 \/ tail - head = num_vert - 1
            THEN 2 * tail ELSE 2 * tail + 1
    ELSE IF \A m \in 1 .. degree(g, tail) : neighbors(g, tail)[m] # head
    THEN g.nonarc
    ELSE indptr(g, tail) + IndexOf(neighbors(g, tail), head)

\* (-1)**remainder
MinusOneTo(remainder) == IF remainder = 0 THEN 1 ELSE -1

arc(g, label) ==
    IF g.kind = "cycle"
    THEN LET tail == label \div 2
             remainder == label % 2
             head == (tail + MinusOneTo(remainder)) % number_of_vertices(g)
         IN <<tail, head>>
    ELSE LET tail == CHOOSE t \in Range0(number_of_vertices(g)) :
                         label \in arcs_with_tail(g, t)
         IN <<tail, At(neighbors(g, tail), label - indptr(g, tail))>>

\* Cycle.next_arc on an arc label
next_arc(g, a) ==
    LET num_arcs == number_of_arcs(g)
    IN IF a % 2 = 0 THEN (a + 2) % num_arcs ELSE (a - 2) % num_arcs

\* previous_arc with the two directions exchanged
previous_arc_exchanged(g, a) ==
    LET num_arcs == number_of_arcs(g)
    IN IF a % 2 = 0 THEN (a + 2) % num_arcs ELSE (a - 2) % num_arcs

\* Cycle.previous_arc on an arc label
previous_arc(g, a) ==
    LET num_arcs == number_of_arcs(g)
    IN IF a % 2 = 0 THEN (a - 2) % num_arcs ELSE (a + 2) % num_arcs

\* Cycle.previous_arc on a (tail, head) pair
previous_arc_pair(g, tail, head) ==
    LET num_vert == number_of_vertices(g)
    IN IF (head - tail) % num_vert = 1
       THEN <<(tail - 1) % num_vert, (head - 1) % num_vert>>
       ELSE IF (tail - head) % num_vert = 1
       THEN <<(tail + 1) % num_vert, (head + 1) % num_vert>>
       ELSE <<-1, -1>>

\* The graphs a walk is built on.
AdjPath == << <<1>>, <<0, 2>>, <<1>> >>
AdjPaw == << <<1>>, <<0, 2, 3>>, <<1, 3>>, <<1, 2>> >>

Graphs ==
    {Cycle(n, o) : n \in 3 .. MaxCycle, o \in {"construction", "ascending"}}
    \cup {Graph(AdjPath), Graph(AdjPaw)}

\* ------------------------------------------------------------ shift builders
\* The shift is kept as the csr `indices` array S_cols: row i of S has its
\* single entry 1 in column S_cols[i] (data all ones, indptr = arange).
ErrCols == <<-1>>

set_flipflop_shift(g) ==
    LET S_cols ==
            Flatten([k \in 1 .. number_of_vertices(g) |->
                       [m \in 1 .. degree(g, k - 1) |->
                          arc_label(g, At(neighbors(g, k - 1), m - 1), k - 1)]])
    IN IF \E i \in 1 .. Len(S_cols) : S_cols[i] = ArcLabelRaises
       THEN ErrCols ELSE S_cols

has_persistent_shift(g) == g.kind = "cycle"

\* a persistent shift built without regard to the graph having previous_arc
set_persistent_shift_any(g) ==
    [k \in 1 .. number_of_arcs(g) |-> previous_arc(g, k - 1)]

\* a persistent shift built from next_arc
set_persistent_shift_next(g) ==
    IF ~has_persistent_shift(g) THEN ErrCols
    ELSE [k \in 1 .. number_of_arcs(g) |-> next_arc(g, k - 1)]

set_persistent_shift(g) ==
    IF ~has_persistent_shift(g) THEN ErrCols
    ELSE [k \in 1 .. number_of_arcs(g) |-> previous_arc(g, k - 1)]

ShiftKeys == {"default", "flipflop", "persistent", "ff", "p"}

\* the name set_shift resolves its argument to
ShiftName(g, key) ==
    LET s1 == IF key = "default"
              THEN (IF has_persistent_shift(g) THEN "p" ELSE "ff")
              ELSE key
    IN IF s1 = "ff" THEN "flipflop" ELSE IF s1 = "p" THEN "persistent" ELSE s1

\* the S_cols set_shift stores, or ErrCols when it raises
set_shift(g, key) ==
    IF key \notin ShiftKeys THEN ErrCols
    ELSE IF ShiftName(g, key) = "flipflop" THEN set_flipflop_shift(g)
    ELSE set_persistent_shift(g)

\* get_shift() as a dense matrix
ShiftMatrix(cols) ==
    LET E(i, j) == IF At(cols, i) = j THEN One ELSE Zero
    IN Mat(Len(cols), Len(cols), E)

\* ------------------------------------------------------------- coin builder
\* The strings given as coin names, with len(s) and s[-1].
CoinStrings ==
    CoinNames \cup {"default", "d", "F", "G", "H", "I", "-F", "-G", "-H", "-I",
                    "", "x", "xF", "-x", "foo"}

StrLen(s) ==
    CASE s = "" -> 0
      [] s \in {"d", "F", "G", "H", "I", "x"} -> 1
      [] s \in {"-F", "-G", "-H", "-I", "xF", "-x"} -> 2
      [] OTHER -> 3

LastChar(s) ==
    CASE s \in {"F", "-F", "xF"} -> "F"
      [] s \in {"G", "-G"} -> "G"
      [] s \in {"H", "-H"} -> "H"
      [] s \in {"I", "-I"} -> "I"
      [] s \in {"x", "-x"} -> "x"
      [] s = "d" -> "d"
      [] OTHER -> "?"

coin_to_valid_name(g, c) ==
    LET s == IF c = "default" \/ c = "d" THEN default_coin(g) ELSE c
    IN IF StrLen(s) <= 2
       THEN IF StrLen(s) = 0 \/ LastChar(s) \notin {"F", "G", "H", "I"}
            THEN "Error"
            ELSE LET base == CASE LastChar(s) = "F" -> "fourier"
                               [] LastChar(s) = "G" -> "grover"
                               [] LastChar(s) = "H" -> "hadamard"
                               [] LastChar(s) = "I" -> "identity"
                 IN IF StrLen(c) = 2
                    THEN (CASE base = "fourier" -> "minus_fourier"
                            [] base = "grover" -> "minus_grover"
                            [] base = "hadamard" -> "minus_hadamard"
                            [] base = "identity" -> "minus_identity")
                    ELSE base
       ELSE IF s \notin CoinNames THEN "Error" ELSE s

\* the exception _coin_to_valid_name raises on c, "" when it returns:
\* s[-1] of the empty string, abbrv[s[-1]] of an unknown letter, or the
\* ValueError of a name that is not in the catalogue
coin_to_valid_name_raises(g, c) ==
    LET s == IF c = "default" \/ c = "d" THEN default_coin(g) ELSE c
    IN IF coin_to_valid_name(g, c) # "Error" THEN ""
       ELSE IF StrLen(s) = 0 THEN "IndexError"
       ELSE IF StrLen(s) <= 2 THEN "KeyError"
       ELSE "ValueError: Invalid coin."

RECURSIVE DictToList_overwriting(_, _, _)
\* the dict loop with a catch-all key that takes every vertex
DictToList_overwriting(g, items, acc) ==
    IF items = <<>> THEN acc
    ELSE LET it == Head(items)
             coin_name == coin_to_valid_name(g, it.key)
         IN IF coin_name = "Error" THEN <<"Error">>
            ELSE IF ~it.iter \/ it.value # <<>>
            THEN DictToList_overwriting(g, Tail(items),
                     [k \in 1 .. Len(acc) |->
                        IF \E m \in 1 .. Len(it.value) : it.value[m] = k - 1
                        THEN coin_name ELSE acc[k]])
            ELSE DictToList_overwriting(g, Tail(items),
                     [k \in 1 .. Len(acc) |-> coin_name])

RECURSIVE DictToList(_, _, _)
\* the loop of _coin_to_list over the items of a dict, in the dict's order;
\* acc is coin_list so far.  An item is [key, iter, value]: iter is FALSE
\* for a value that is a single vertex and not a list.
DictToList(g, items, acc) ==
    IF items = <<>> THEN acc
    ELSE LET it == Head(items)
             coin_name == coin_to_valid_name(g, it.key)
         IN IF coin_name = "Error" THEN <<"Error">>
            ELSE IF ~it.iter \/ it.value # <<>>
            THEN DictToList(g, Tail(items),
                     [k \in 1 .. Len(acc) |->
                        IF \E m \in 1 .. Len(it.value) : it.value[m] = k - 1
                        THEN coin_name ELSE acc[k]])
            ELSE DictToList(g, Tail(items),
                     [k \in 1 .. Len(acc) |->
                        IF acc[k] = "" THEN coin_name ELSE acc[k]])

\* _coin_to_list: [ok, coin_list, undefined_coin]; ok is FALSE when it raises.
\* c is [kind |-> "str", s], [kind |-> "dict", items] or [kind |-> "list", l].
coin_to_list(g, c) ==
    LET num_vert == number_of_vertices(g)
        Raised == [ok |-> FALSE, coin_list |-> <<>>, undefined_coin |-> FALSE]
    IN CASE c.kind = "str" ->
              LET name == coin_to_valid_name(g, c.s)
              IN IF name = "Error" THEN Raised
                 ELSE [ok |-> TRUE, coin_list |-> [k \in 1 .. num_vert |-> name],
                       undefined_coin |-> FALSE]
         [] c.kind = "dict" ->
              LET l == DictToList(g, c.items, [k \in 1 .. num_vert |-> ""])
              IN IF l = <<"Error">> THEN Raised
                 ELSE [ok |-> TRUE, coin_list |-> l,
                       undefined_coin |-> \E k \in 1 .. num_vert : l[k] = ""]
         [] c.kind = "list" ->
              IF Len(c.l) # num_vert THEN Raised
              ELSE LET l == [k \in 1 .. num_vert |-> coin_to_valid_name(g, c.l[k])]
                   IN IF \E k \in 1 .. num_vert : l[k] = "Error" THEN Raised
                      ELSE [ok |-> TRUE, coin_list |-> l, undefined_coin |-> FALSE]

\* The value set_coin stores in _coin: [kind |-> "matrix", mat, names] or
\* [kind |-> "list", mat, names]; kind "error" when the call raises.
\* c of kind "array" is an object with a shape of ndim dimensions.
StoredCoin(kind, mat, names) == [kind |-> kind, mat |-> mat, names |-> names]

\* set_coin without the test of undefined_coin
set_coin_unchecked(g, c) ==
    IF c.kind = "array"
    THEN IF c.ndim # 2 THEN StoredCoin("error", NoneMat, <<>>)
         ELSE StoredCoin("matrix", c.mat, <<>>)
    ELSE LET r == coin_to_list(g, c)
         IN IF ~r.ok THEN StoredCoin("error", NoneMat, <<>>)
            ELSE StoredCoin("list", NoneMat, r.coin_list)

set_coin(g, c) ==
    IF c.kind = "array"
    THEN IF c.ndim # 2 THEN StoredCoin("error", NoneMat, <<>>)
         ELSE StoredCoin("matrix", c.mat, <<>>)
    ELSE LET r == coin_to_list(g, c)
         IN IF ~r.ok \/ r.undefined_coin THEN StoredCoin("error", NoneMat, <<>>)
            ELSE StoredCoin("list", NoneMat, r.coin_list)

\* the exception set_coin raises on c, "" when it stores a coin
set_coin_raises(g, c) ==
    IF c.kind = "array"
    THEN IF c.ndim # 2 THEN "TypeError: Explicit coin is not a matrix." ELSE ""
    ELSE LET r == coin_to_list(g, c)
             names == CASE c.kind = "str" -> <<c.s>>
                        [] c.kind = "dict" ->
                             [k \in 1 .. Len(c.items) |-> c.items[k].key]
                        [] c.kind = "list" -> c.l
             bad == {k \in 1 .. Len(names) :
                        coin_to_valid_name_raises(g, names[k]) # ""}
         IN IF c.kind = "list" /\ Len(c.l) # number_of_vertices(g)
            THEN "ValueError: number of coins."
            ELSE IF bad # {}
            THEN coin_to_valid_name_raises(g,
                     names[CHOOSE k \in bad : \A m \in bad : k <= m])
            ELSE IF r.undefined_coin
            THEN "ValueError: Coin was not specified for all vertices."
            ELSE ""

coin_list_to_explicit_coin(g, coin_list) ==
    BlockDiag([k \in 1 .. number_of_vertices(g) |->
                 coin_funcs(coin_list[k], degree(g, k - 1))])

\* get_block of get_coin: the stored matrix sliced between the labels of the
\* arcs to the first and to the last neighbor of the vertex
get_block(g, M, vertex) ==
    LET nb == neighbors(g, vertex)
        start == arc_label(g, vertex, At(nb, 0))
        end == arc_label(g, vertex, At(nb, Len(nb) - 1)) + 1
    IN Slice(M, start, end)

\* get_coin without the oracle substitution
get_coin_stored(g, c, oracle) ==
    IF c.kind = "matrix" THEN c.mat ELSE coin_list_to_explicit_coin(g, c.names)

\* get_coin: the coin used for the evolution operator, ErrMat when it raises
get_coin(g, c, oracle) ==
    IF c.kind = "matrix"
    THEN IF oracle = <<>> THEN c.mat
         ELSE BlockDiag([k \in 1 .. number_of_vertices(g) |->
                           IF oracle[k] # ""
                           THEN coin_funcs(oracle[k], degree(g, k - 1))
                           ELSE get_block(g, c.mat, k - 1)])
    ELSE LET coin_list ==
                 IF oracle # <<>>
                 THEN [k \in 1 .. Len(c.names) |->
                         IF oracle[k] # "" THEN oracle[k] ELSE c.names[k]]
                 ELSE c.names
         IN coin_list_to_explicit_coin(g, coin_list)

\* ------------------------------------------------------------- set_marked
\* m is [kind |-> "list", l] or [kind |-> "dict", items].
\* The oracle coins set_marked stores, or <<"Error">> when it raises.
set_marked_oracle(g, m) ==
    IF m.kind = "dict"
    THEN LET r == coin_to_list(g, m)
         IN IF ~r.ok THEN <<"Error">> ELSE r.coin_list
    ELSE <<>>

\* the vertices set_marked hands to QuantumWalk.set_marked
set_marked_vertices(m) ==
    IF m.kind = "dict"
    THEN Flatten([k \in 1 .. Len(m.items) |-> m.items[k].value])
    ELSE m.l

\* QuantumWalk.set_marked: the marked vertices are kept as a set
super_set_marked(vertices) == {vertices[k] : k \in 1 .. Len(vertices)}

\* set_marked that never unsets the evolution operator
set_marked_keeps(coin_list, old_oracle) == FALSE

\* set_marked looking at the new oracle coins only
set_marked_unsets_new_only(coin_list, old_oracle) == coin_list # <<>>

\* whether set_marked unsets the evolution operator
set_marked_unsets(coin_list, old_oracle) == coin_list # <<>> \/ old_oracle # <<>>

\* --------------------------------------------------------- get_evolution
\* S @ C for the csr shift: row i of the product is row S_cols[i] of C;
\* the product raises when the dimensions do not match.
MatMulShift(cols, C) ==
    IF ~IsMatrix(C) THEN ErrMat
    ELSE IF C.nr # Len(cols) THEN ErrMat
    ELSE LET E(i, j) == MatAt(C, At(cols, i), j)
         IN Mat(Len(cols), C.nc, E)

\* column j of a dense matrix
Column(M, j) == [i \in 1 .. M.nr |-> M.e[i][j + 1]]

\* the accelerated engine: the dense product A.B of the two operands sent
nbl_multiply_matrices(A, B) ==
    IF A.nc # B.nr THEN ErrMat
    ELSE LET E(i, j) == RowDot(A.e[i + 1], Column(B, j), A.nc)
         IN Mat(A.nr, B.nc, E)

pyneblina_imported(engine) == engine

\* hpc as asked for, whatever the engine's availability
hpc_kept(engine, hpc) == hpc

\* if hpc and not self._pyneblina_imported(): hpc = False
hpc_fallback(engine, hpc) ==
    IF hpc /\ ~pyneblina_imported(engine) THEN FALSE ELSE hpc

\* the operator get_evolution computes when none is memoized
compute_evolution(g, engine, hpc, cols, c, oracle) ==
    LET use_hpc == hpc_fallback(engine, hpc)
        C == get_coin(g, c, oracle)
    IN IF ~IsMatrix(C) THEN ErrMat
       ELSE IF use_hpc THEN nbl_multiply_matrices(ShiftMatrix(cols), C)
       ELSE MatMulShift(cols, C)

\* get_evolution answering a memoized read with the operator of the stored
\* coin alone
get_evolution_rebuilt(g, engine, hpc, cols, c, oracle, memo) ==
    IF memo # NoneMat THEN compute_evolution(g, engine, hpc, cols, c, <<>>)
    ELSE compute_evolution(g, engine, hpc, cols, c, oracle)

\* what get_evolution returns: the memoized operator if there is one
get_evolution(g, engine, hpc, cols, c, oracle, memo) ==
    IF memo # NoneMat THEN memo
    ELSE compute_evolution(g, engine, hpc, cols, c, oracle)

\* ------------------------------------------------------------------ inputs
Vertices(g) == Range0(number_of_vertices(g))

\* an explicit coin whose entries are pairwise distinct: entry (i, j) of the
\* n x n matrix is the integer i * n + j + 1
NumberedMatrix(n) ==
    LET E(i, j) == IntAmp(i * n + j + 1) IN Mat(n, n, E)

StrInput(s) == [kind |-> "str", s |-> s]
ListInput(l) == [kind |-> "list", l |-> l]
DictInput(items) == [kind |-> "dict", items |-> items]
ArrayInput(ndim, mat) == [kind |-> "array", ndim |-> ndim, mat |-> mat]
Item(key, iter, value) == [key |-> key, iter |-> iter, value |-> value]

\* the coin names given to set_coin in the configuration state machine
MainCoinStrings == {"default", "fourier", "-G", "foo"}

CoinInputs(g) ==
    LET n == number_of_vertices(g)
        OneOdd(v, a, b) == [k \in 1 .. n |-> IF k - 1 = v THEN a ELSE b]
    IN {StrInput(s) : s \in MainCoinStrings}
       \cup {ListInput(OneOdd(v, "grover", "I")) : v \in Vertices(g)}
       \cup {ListInput(<<"grover">>)}
       \cup {DictInput(<<Item("identity", TRUE, <<>>), Item("G", FALSE, <<0>>)>>),
             DictInput(<<Item("grover", TRUE, <<0>>)>>)}
       \cup {ArrayInput(2, NumberedMatrix(number_of_arcs(g))),
             ArrayInput(1, NoneMat)}

MarkedInputs(g) ==
    {ListInput(SetToSeq(S)) :
        S \in {T \in SUBSET Vertices(g) : Cardinality(T) <= MaxMarked}}
    \cup {DictInput(<<>>)}
    \cup {DictInput(<<Item("-I", TRUE, <<v>>)>>) : v \in Vertices(g)}
    \cup {DictInput(<<Item("grover", FALSE, <<0>>)>>),
          DictInput(<<Item("-I", TRUE, <<>>)>>),
          DictInput(<<Item("foo", TRUE, <<>>)>>),
          DictInput(<<Item("hadamard", TRUE, <<1>>), Item("-I", TRUE, <<>>)>>)}

\* ----------------------------------------------------------------- actions
\* The engine's side of the last operation: the remote handles still held
\* when it returned, and the engine calls it made.
Remote(handles, calls) == [handles |-> handles, calls |-> calls]

NoRemote == Remote({}, 0)

Call(op, ok, arg) == [op |-> op, ok |-> ok, arg |-> arg]

\* Coined(graph): set_evolution() with the default arguments
Init ==
    /\ graph \in Graphs
    /\ nbl \in BOOLEAN
    /\ shift = set_shift(graph, "default")
    /\ coin = set_coin(graph, StrInput("default"))
    /\ oracle_coin = <<>>
    /\ marked = {}
    /\ evolution = NoneMat
    /\ last = Call("init", TRUE, "")
    /\ ret = NoneMat
    /\ psi = <<>>
    /\ step = 0
    /\ psi0 = 0
    /\ trace = <<>>
    /\ remote = NoRemote

\* set_shift that keeps the memoized evolution operator
SetShift_keeps_evolution(key) ==
    LET S == set_shift(graph, key)
    IN /\ IF S = ErrCols
          THEN /\ last' = Call("set_shift", FALSE, "")
               /\ UNCHANGED <<shift, evolution, ret>>
          ELSE /\ shift' = S
               /\ evolution' = evolution
               /\ last' = Call("set_shift", TRUE, ShiftName(graph, key))
               /\ ret' = NoneMat
       /\ UNCHANGED <<graph, nbl, coin, oracle_coin, marked, psi, step, psi0, trace,
                      remote>>

SetShift(key) ==
    LET S == set_shift(graph, key)
    IN /\ IF S = ErrCols
          THEN /\ last' = Call("set_shift", FALSE, "")
               /\ UNCHANGED <<shift, evolution, ret>>
          ELSE /\ shift' = S
               /\ evolution' = NoneMat
               /\ last' = Call("set_shift", TRUE, ShiftName(graph, key))
               /\ ret' = NoneMat
       /\ UNCHANGED <<graph, nbl, coin, oracle_coin, marked, psi, step, psi0, trace,
                      remote>>

SetShiftAction == \E key \in ShiftKeys \cup {"bad"} : SetShift(key)

\* set_coin(c); note is what the record of the call keeps of its argument
\* set_coin unsetting the memoized operator before it raises
SetCoinNoted_unsets(c, note) ==
    LET new == set_coin(graph, c)
    IN /\ evolution' = NoneMat
       /\ IF new.kind = "error"
          THEN /\ last' = Call("set_coin", FALSE, note)
               /\ UNCHANGED <<coin, ret>>
          ELSE /\ coin' = new
               /\ last' = Call("set_coin", TRUE, note)
               /\ ret' = NoneMat
       /\ UNCHANGED <<graph, nbl, shift, oracle_coin, marked, psi, step, psi0, trace,
                      remote>>

SetCoinNoted(c, note) ==
    LET new == set_coin(graph, c)
    IN /\ IF new.kind = "error"
          THEN /\ last' = Call("set_coin", FALSE, note)
               /\ UNCHANGED <<coin, evolution, ret>>
          ELSE /\ coin' = new
               /\ evolution' = NoneMat
               /\ last' = Call("set_coin", TRUE, note)
               /\ ret' = NoneMat
       /\ UNCHANGED <<graph, nbl, shift, oracle_coin, marked, psi, step, psi0, trace,
                      remote>>

SetCoin(c) == SetCoinNoted(c, "")

SetCoinAction == \E c \in CoinInputs(graph) : SetCoin(c)

\* set_marked that writes the oracle coins into the stored coin
SetMarked_writes_coin(m) ==
    LET coin_list == set_marked_oracle(graph, m)
    IN /\ IF coin_list = <<"Error">>
          THEN /\ last' = Call("set_marked", FALSE, "")
               /\ UNCHANGED <<marked, oracle_coin, coin, evolution, ret>>
          ELSE /\ marked' = super_set_marked(set_marked_vertices(m))
               /\ evolution' = IF set_marked_unsets(coin_list, oracle_coin)
                               THEN NoneMat ELSE evolution
               /\ oracle_coin' = coin_list
               /\ coin' = IF coin.kind = "list" /\ coin_list # <<>>
                          THEN StoredCoin("list", NoneMat,
                                   [k \in 1 .. Len(coin.names) |->
                                      IF coin_list[k] # "" THEN coin_list[k]
                                      ELSE coin.names[k]])
                          ELSE coin
               /\ last' = Call("set_marked", TRUE, "")
               /\ ret' = NoneMat
       /\ UNCHANGED <<graph, nbl, shift, psi, step, psi0, trace, remote>>

SetMarked(m) ==
    LET coin_list == set_marked_oracle(graph, m)
    IN /\ IF coin_list = <<"Error">>
          THEN /\ last' = Call("set_marked", FALSE, "")
               /\ UNCHANGED <<marked, oracle_coin, evolution, ret>>
          ELSE /\ marked' = super_set_marked(set_marked_vertices(m))
               /\ evolution' = IF set_marked_unsets(coin_list, oracle_coin)
                               THEN NoneMat ELSE evolution
               /\ oracle_coin' = coin_list
               /\ last' = Call("set_marked", TRUE, "")
               /\ ret' = NoneMat
       /\ UNCHANGED <<graph, nbl, shift, coin, psi, step, psi0, trace, remote>>

SetMarkedAction == \E m \in MarkedInputs(graph) : SetMarked(m)

GetEvolution(hpc) ==
    LET U == get_evolution(graph, nbl, hpc, shift, coin, oracle_coin, evolution)
    IN /\ IF ~IsMatrix(U)
          THEN /\ last' = Call("get_evolution", FALSE, "")
               /\ UNCHANGED <<evolution, ret>>
          ELSE /\ evolution' = U
               /\ ret' = U
               /\ last' = Call("get_evolution", TRUE,
                               IF evolution # NoneMat THEN "memo" ELSE "computed")
       /\ UNCHANGED <<graph, nbl, shift, coin, oracle_coin, marked, psi, step, psi0, trace,
                      remote>>

GetEvolutionAction == \E hpc \in BOOLEAN : GetEvolution(hpc)

Next == SetShiftAction \/ SetCoinAction \/ SetMarkedAction \/ GetEvolutionAction

Spec == Init /\ [][Next]_vars

\* --------------------------------------------------------------- simulation
\* ket(arc_label): the computational basis state of an arc label
ket(g, label) == [k \in 1 .. number_of_arcs(g) |-> IF k - 1 = label THEN One ELSE Zero]

\* Coined(graph, shift=key, coin=c): set_evolution with these keywords
SimInit ==
    /\ graph \in {Cycle(n, o) : n \in 3 .. MaxSimCycle,
                                o \in {"construction", "ascending"}}
    /\ nbl \in BOOLEAN
    /\ \E key \in {"persistent", "flipflop"} :
          /\ shift = set_shift(graph, key)
          /\ last = Call("set_evolution", TRUE, ShiftName(graph, key))
    /\ \E c \in {"identity", "-I"} : coin = set_coin(graph, StrInput(c))
    /\ oracle_coin = <<>>
    /\ marked = {}
    /\ evolution = NoneMat
    /\ ret = NoneMat
    /\ psi = <<>>
    /\ step = 0
    /\ psi0 = 0
    /\ trace = <<>>
    /\ remote = NoRemote

\* simulate(): the evolution operator is fetched and the initial state taken
SimStart(label) ==
    /\ psi = <<>>
    /\ evolution' = get_evolution(graph, nbl, TRUE, shift, coin, oracle_coin, evolution)
    /\ psi' = ket(graph, label)
    /\ psi0' = label
    /\ step' = 0
    /\ UNCHANGED <<graph, nbl, shift, coin, oracle_coin, marked, last, ret, trace,
                   remote>>

SimStartAction == \E label \in Range0(number_of_arcs(graph)) : SimStart(label)

\* one application of the evolution operator
simulate_step(U, state) == MatVec(U, state)

SimStep ==
    /\ psi # <<>>
    /\ step < number_of_vertices(graph)
    /\ psi' = simulate_step(evolution, psi)
    /\ step' = step + 1
    /\ UNCHANGED <<graph, nbl, shift, coin, oracle_coin, marked, evolution, last,
                   ret, psi0, trace, remote>>

SimNext == SimStartAction \/ SimStep

SimSpec == SimInit /\ [][SimNext]_vars

\* ------------------------------------------------- set_coin on its inputs
\* The coin arguments of this state machine: every string of CoinStrings and
\* the dicts made of up to MaxKeys items of ItemPool, in every order.  The
\* record of a call keeps the argument and the exception raised.
ItemPool ==
    {Item("G", TRUE, <<>>), Item("identity", TRUE, <<0>>),
     Item("-F", TRUE, <<1>>), Item("hadamard", FALSE, <<2>>)}

RECURSIVE ItemSeqs(_)
\* the sequences of at most n distinct items of ItemPool
ItemSeqs(n) ==
    IF n = 0 THEN {<<>>}
    ELSE LET shorter == ItemSeqs(n - 1)
         IN shorter \cup
            {Append(p, x) : <<p, x>> \in
                {<<q, y>> \in shorter \X ItemPool :
                    \A k \in 1 .. Len(q) : q[k] # y}}

CoinArguments(g) ==
    {StrInput(s) : s \in CoinStrings}
    \cup {DictInput(items) : items \in ItemSeqs(MaxKeys)}
    \cup {DictInput(<<Item("identity", TRUE, <<0>>), Item("foo", TRUE, <<>>)>>),
          ListInput([k \in 1 .. number_of_vertices(g) |-> "-H"]),
          ListInput(<<"G">>)}

CoinNote(g, c) == [c |-> c, err |-> set_coin_raises(g, c)]

CoinInit ==
    /\ graph \in Graphs
    /\ nbl \in BOOLEAN
    /\ shift = set_shift(graph, "default")
    /\ coin = set_coin(graph, StrInput("default"))
    /\ oracle_coin = <<>>
    /\ marked = {}
    /\ evolution = NoneMat
    /\ last = Call("init", TRUE, CoinNote(graph, StrInput("default")))
    /\ ret = NoneMat
    /\ psi = <<>>
    /\ step = 0
    /\ psi0 = 0
    /\ trace = <<>>
    /\ remote = NoRemote

CoinCall == \E c \in CoinArguments(graph) : SetCoinNoted(c, CoinNote(graph, c))

CoinNext == CoinCall

CoinSpec == CoinInit /\ [][CoinNext]_vars

\* ------------------------------------------- walks on asymmetric adjacency
\* A general graph built from an adjacency matrix that is not symmetric.  What
\* arc_label gives for a pair that is no arc is a parameter of the graph: it
\* raises, or it returns -1 or some arc label.
Digraph(adj, nonarc) == [kind |-> "graph", nbrs |-> adj, nonarc |-> nonarc]

AdjOneWay == << <<1>>, <<>> >>
AdjHalfPath == << <<1>>, <<0, 2>>, <<>> >>

AsymGraphs ==
    UNION {{Digraph(adj, x) :
               x \in {ArcLabelRaises} \cup (-1 .. number_of_arcs(Graph(adj)) - 1)} :
           adj \in {AdjOneWay, AdjHalfPath}}

\* Coined(graph): set_shift('default') raising leaves no walk
AsymInit ==
    /\ graph \in AsymGraphs
    /\ nbl \in BOOLEAN
    /\ LET S == set_shift(graph, "default")
       IN IF S = ErrCols
          THEN /\ shift = ErrCols
               /\ coin = StoredCoin("error", NoneMat, <<>>)
               /\ last = Call("init", FALSE, "")
          ELSE /\ shift = S
               /\ coin = set_coin(graph, StrInput("default"))
               /\ last = Call("init", TRUE, "")
    /\ oracle_coin = <<>>
    /\ marked = {}
    /\ evolution = NoneMat
    /\ ret = NoneMat
    /\ psi = <<>>
    /\ step = 0
    /\ psi0 = 0
    /\ trace = <<>>
    /\ remote = NoRemote

Constructed == ~(last.op = "init" /\ ~last.ok)

AsymNext ==
    \/ Constructed /\ SetShiftAction
    \/ Constructed /\ SetCoinAction
    \/ Constructed /\ SetMarkedAction

AsymSpec == AsymInit /\ [][AsymNext]_vars

\* ----------------------------------------- states and their probabilities
\* A rational n/d in lowest terms is <<n, d>>.
Rat(n, d) == LET g == GCD(n, d) IN <<n \div g, d \div g>>

RatAdd(a, b) == Rat(a[1] * b[2] + b[1] * a[2], a[2] * b[2])

RECURSIVE RatSum(_)
RatSum(s) == IF s = <<>> THEN <<0, 1>> ELSE RatAdd(Head(s), RatSum(Tail(s)))

\* _elementwise_probability: the squared magnitude of each amplitude
elementwise_probability(elems) == [k \in 1 .. Len(elems) |-> <<elems[k][1], elems[k][2]>>]

\* _normalize: the state divided by its norm; a state of norm zero is refused
EmptyState == <<Zero>>

normalize(state) ==
    LET norm2 == RatSum(elementwise_probability(state))
    IN IF norm2[1] = 0 THEN EmptyState
       ELSE AsTuple([k \in 1 .. Len(state) |->
               Amp(state[k][1] * norm2[2], state[k][2] * norm2[1],
                   state[k][3], state[k][4])])

\* An entry of state(): (amplitude, locator) with the locator an arc label,
\* <<label>>, or an arc, <<tail, head>>; an entry of len 3 is (amplitude,
\* vertex, coin).
StateEntry(amplitude, at, len) == [amplitude |-> amplitude, at |-> at, len |-> len]

hilb_dim(g) == number_of_arcs(g)

StateRaises == <<Unrepresented>>

RECURSIVE state_loop_first(_, _, _)
\* the loop of state() keeping the first amplitude written to a label
state_loop_first(g, args, state) ==
    IF args = <<>> THEN state
    ELSE LET entry == Head(args)
         IN IF entry.len = 3 THEN StateRaises
            ELSE LET label == IF Len(entry.at) = 2
                              THEN arc_label(g, entry.at[1], entry.at[2])
                              ELSE entry.at[1]
                 IN state_loop_first(g, Tail(args),
                       [state EXCEPT ![label + 1] =
                           IF @ = Zero THEN entry.amplitude ELSE @])

RECURSIVE state_loop(_, _, _)
\* for entry in args: state[label] = entry[0]
state_loop(g, args, state) ==
    IF args = <<>> THEN state
    ELSE LET entry == Head(args)
         IN IF entry.len = 3 THEN StateRaises
            ELSE LET label == IF Len(entry.at) = 2
                              THEN arc_label(g, entry.at[1], entry.at[2])
                              ELSE entry.at[1]
                 IN state_loop(g, Tail(args),
                       [state EXCEPT ![label + 1] = entry.amplitude])

\* state(*args)
state(g, args) ==
    LET filled == state_loop(g, args, AsTuple([k \in 1 .. hilb_dim(g) |-> Zero]))
    IN IF filled = StateRaises THEN StateRaises ELSE normalize(filled)

\* A numpy array of states: ndim 1 is a single state vector, kept as the one
\* row; ndim 2 is an array of state vectors.
Array1(vec) == [ndim |-> 1, rows |-> <<vec>>]
Array2(rows) == [ndim |-> 2, rows |-> rows]

get_entries(state_vec, indexes) ==
    LET idx == SetToSeq(indexes)
    IN [k \in 1 .. Len(idx) |-> state_vec[idx[k] + 1]]

\* the labels of the arcs with head v
arcs_with_head(g, v) == {a \in Range0(number_of_arcs(g)) : arc(g, a)[2] = v}

probability_distribution_heads(g, states) ==
    LET sts == states.rows
        num_vert == number_of_vertices(g)
    IN [nr |-> Len(sts), nc |-> num_vert,
        e |-> AsTuple([i \in 1 .. Len(sts) |-> AsTuple([v \in 1 .. num_vert |->
                 RatSum(elementwise_probability(
                     get_entries(sts[i], arcs_with_head(g, v - 1))))])])]

probability_distribution(g, states) ==
    LET sts == IF states.ndim = 1 THEN <<states.rows[1]>> ELSE states.rows
        num_vert == number_of_vertices(g)
    IN [nr |-> Len(sts), nc |-> num_vert,
        e |-> AsTuple([i \in 1 .. Len(sts) |-> AsTuple([v \in 1 .. num_vert |->
                 RatSum(elementwise_probability(
                     get_entries(sts[i], arcs_with_tail(g, v - 1))))])])]

\* amplitudes given to state(): 1, 2, i and 0
Amplitudes == {One, IntAmp(2), Amp(1, 1, 1, 4), Zero}

\* locators given to state(): the first and the last arc, by label and by
\* (tail, head)
Locators(g) ==
    LET labels == {0, number_of_arcs(g) - 1}
    IN {<<a>> : a \in labels} \cup {arc(g, a) : a \in labels}

Entries(g) ==
    {StateEntry(x, at, 2) : x \in Amplitudes, at \in Locators(g)}
        \cup {StateEntry(One, <<0, 0>>, 3)}

RECURSIVE EntrySeqs(_, _)
EntrySeqs(g, n) ==
    IF n = 0 THEN {<<>>}
    ELSE LET shorter == EntrySeqs(g, n - 1)
         IN shorter \cup {Append(es, e) : es \in shorter, e \in Entries(g)}

\* state vectors that are not normalized
RawStates(g) ==
    {AsTuple([k \in 1 .. hilb_dim(g) |->
         IF k - 1 = a THEN x ELSE IF k - 1 = b THEN One ELSE Zero]) :
       a \in {0}, b \in {number_of_arcs(g) - 1}, x \in Amplitudes}

StateGraphs ==
    {Cycle(3, "construction"), Cycle(3, "ascending"), Graph(AdjPaw)}

\* a walk and the entries that state() is to be called with
StateInit ==
    /\ graph \in StateGraphs
    /\ nbl = FALSE
    /\ shift = set_shift(graph, "default")
    /\ coin = set_coin(graph, StrInput("default"))
    /\ \E args \in EntrySeqs(graph, MaxEntries) : last = Call("init", TRUE, args)
    /\ oracle_coin = <<>>
    /\ marked = {}
    /\ evolution = NoneMat
    /\ ret = NoneMat
    /\ psi = <<>>
    /\ step = 0
    /\ psi0 = 0
    /\ trace = <<>>
    /\ remote = NoRemote

\* psi = state(*args)
StateCall(args) ==
    LET new == state(graph, args)
    IN /\ last.op = "init"
       /\ last' = Call("state", new # StateRaises /\ new # EmptyState, args)
       /\ psi' = IF new # StateRaises /\ new # EmptyState THEN new ELSE psi
       /\ ret' = NoneMat
       /\ UNCHANGED <<graph, nbl, shift, coin, oracle_coin, marked, evolution,
                      step, psi0, trace, remote>>

StateCallAction == StateCall(last.arg)

\* ret = probability_distribution(states)
ProbabilityDistribution(states) ==
    /\ ret' = probability_distribution(graph, states)
    /\ last' = Call("probability_distribution", TRUE, states)
    /\ UNCHANGED <<graph, nbl, shift, coin, oracle_coin, marked, evolution,
                   psi, step, psi0, trace, remote>>

ProbabilityDistributionAction ==
    \/ psi # <<>> /\ ProbabilityDistribution(Array1(psi))
    \/ \E raw \in RawStates(graph) :
          \/ ProbabilityDistribution(Array1(raw))
          \/ ProbabilityDistribution(Array2(<<raw>>))
          \/ psi # <<>> /\ ProbabilityDistribution(Array2(<<raw, psi>>))

StateNext == StateCallAction \/ ProbabilityDistributionAction

StateSpec == StateInit /\ [][StateNext]_vars

\* ------------------------------------------------------ simulation traces
\* _simulate_step with the accelerated branch applying the shift alone
RECURSIVE coined_simulate_step_shift_only(_, _, _, _, _, _)
coined_simulate_step_shift_only(n, hpc, C, S, U, vec) ==
    IF n = 0 THEN vec
    ELSE coined_simulate_step_shift_only(n - 1, hpc, C, S, U,
            IF hpc THEN MatVec(S, vec) ELSE MatVec(U, vec))

\* _simulate_step with the accelerated branch applying the shift first
RECURSIVE coined_simulate_step_shift_first(_, _, _, _, _, _)
coined_simulate_step_shift_first(n, hpc, C, S, U, vec) ==
    IF n = 0 THEN vec
    ELSE coined_simulate_step_shift_first(n - 1, hpc, C, S, U,
            IF hpc THEN MatVec(C, MatVec(S, vec)) ELSE MatVec(U, vec))

RECURSIVE coined_simulate_step(_, _, _, _, _, _)
\* _simulate_step(step, hpc) on _simul_mat = (C, S) and _simul_vec: step
\* times the coin and then the shift; without the engine, step times U
coined_simulate_step(n, hpc, C, S, U, vec) ==
    IF n = 0 THEN vec
    ELSE coined_simulate_step(n - 1, hpc, C, S, U,
            IF hpc THEN MatVec(S, MatVec(C, vec)) ELSE MatVec(U, vec))

\* the arguments of simulate
SimArgs(num_steps, save_interval, save_initial_state, initial_state, hpc) ==
    [num_steps |-> num_steps, save_interval |-> save_interval,
     save_initial_state |-> save_initial_state, initial_state |-> initial_state,
     hpc |-> hpc]

\* the engine is used when asked for and available
use_engine(engine, hpc) == hpc /\ pyneblina_imported(engine)

InitialStates(g) ==
    {ket(g, 0), ket(g, number_of_arcs(g) - 1),
     state(g, <<StateEntry(IntAmp(3), <<0>>, 2),
                StateEntry(IntAmp(4), <<number_of_arcs(g) - 1>>, 2)>>)}

TraceMarked == {ListInput(<<>>), DictInput(<<Item("-I", TRUE, <<0>>)>>),
                DictInput(<<Item("-G", TRUE, <<1>>)>>)}

TraceInit ==
    /\ graph \in {Cycle(3, "construction"), Cycle(3, "ascending"), Graph(AdjPaw)}
    /\ nbl \in BOOLEAN
    /\ \E key \in {"persistent", "flipflop"} :
          /\ set_shift(graph, key) # ErrCols
          /\ shift = set_shift(graph, key)
    /\ \E c \in {"G", "-G", "I"} : coin = set_coin(graph, StrInput(c))
    /\ \E m \in TraceMarked :
          /\ oracle_coin = set_marked_oracle(graph, m)
          /\ marked = super_set_marked(set_marked_vertices(m))
    /\ last = Call("init", TRUE, "")
    /\ evolution = NoneMat
    /\ ret = NoneMat
    /\ psi = <<>>
    /\ step = 0
    /\ psi0 = 0
    /\ trace = <<>>
    /\ remote = NoRemote

\* no simulate call was made yet: a walk is simulated once
Idle == last.op # "simulate"

\* simulate(...): the engine is prepared and the initial state recorded
Simulate(args) ==
    /\ Idle
    /\ IF args.num_steps % args.save_interval # 0
       THEN /\ last' = Call("simulate", FALSE, args)
            /\ UNCHANGED <<evolution, psi, step, trace>>
       ELSE /\ last' = Call("simulate", TRUE, args)
            /\ evolution' = IF use_engine(nbl, args.hpc) THEN evolution
                            ELSE get_evolution(graph, nbl, FALSE, shift, coin,
                                               oracle_coin, evolution)
            /\ psi' = args.initial_state
            /\ step' = 0
            /\ trace' = IF args.save_initial_state
                        THEN <<args.initial_state>> ELSE <<>>
    /\ UNCHANGED <<graph, nbl, shift, coin, oracle_coin, marked, ret, psi0,
                   remote>>

SimulateAction ==
    \E num_steps \in 0 .. MaxSteps, save_interval \in {1, 2},
       save_initial_state \in BOOLEAN, hpc \in BOOLEAN,
       initial_state \in InitialStates(graph) :
       Simulate(SimArgs(num_steps, save_interval, save_initial_state,
                        initial_state, hpc))

\* save_interval applications, then the state is saved
SimulateStep ==
    /\ last.op = "simulate" /\ last.ok
    /\ step < last.arg.num_steps
    /\ psi' = coined_simulate_step(last.arg.save_interval,
                  use_engine(nbl, last.arg.hpc),
                  get_coin(graph, coin, oracle_coin), ShiftMatrix(shift),
                  evolution, psi)
    /\ step' = step + last.arg.save_interval
    /\ trace' = Append(trace, psi')
    /\ UNCHANGED <<graph, nbl, shift, coin, oracle_coin, marked, evolution,
                   last, ret, psi0, remote>>

\* get_evolution(hpc=True) before the simulation
EngineEvolution == Idle /\ GetEvolution(TRUE)

TraceNext == SimulateAction \/ SimulateStep \/ EngineEvolution

TraceSpec == TraceInit /\ [][TraceNext]_vars

\* ---------------------------------------------------------- set_evolution
\* **kwargs of set_evolution: for each of shift, coin and marked whether the
\* keyword is passed, and its value
Kwargs(has_shift, shift_arg, has_coin, coin_arg, has_marked, marked_arg) ==
    [has_shift |-> has_shift, shift |-> shift_arg,
     has_coin |-> has_coin, coin |-> coin_arg,
     has_marked |-> has_marked, marked |-> marked_arg]

\* _filter_valid_kwargs: the keyword passed on, or the setter's default
S_kwargs(kw) == IF kw.has_shift THEN kw.shift ELSE "default"
C_kwargs(kw) == IF kw.has_coin THEN kw.coin ELSE StrInput("default")
R_kwargs(kw) == IF kw.has_marked THEN kw.marked ELSE ListInput(<<>>)

\* set_evolution that sets only the slots whose keyword is passed
SetEvolution_keeps(kw) ==
    LET S == IF kw.has_shift THEN set_shift(graph, kw.shift) ELSE shift
        C == IF kw.has_coin THEN set_coin(graph, kw.coin) ELSE coin
        coin_list == IF kw.has_marked THEN set_marked_oracle(graph, kw.marked)
                     ELSE oracle_coin
        ok == S # ErrCols /\ C.kind # "error" /\ coin_list # <<"Error">>
    IN /\ last' = Call("set_evolution", ok, kw)
       /\ shift' = IF S # ErrCols THEN S ELSE shift
       /\ coin' = IF S # ErrCols /\ C.kind # "error" THEN C ELSE coin
       /\ oracle_coin' = IF ok THEN coin_list ELSE oracle_coin
       /\ marked' = IF ok /\ kw.has_marked
                    THEN super_set_marked(set_marked_vertices(kw.marked))
                    ELSE marked
       /\ evolution' = IF S # ErrCols THEN NoneMat ELSE evolution
       /\ ret' = NoneMat
       /\ UNCHANGED <<graph, nbl, psi, step, psi0, trace, remote>>

\* set_evolution(**kwargs): set_shift, set_coin, set_marked in this order,
\* each with its keyword or its default; the first that raises ends the call
SetEvolution(kw) ==
    LET S == set_shift(graph, S_kwargs(kw))
        C == set_coin(graph, C_kwargs(kw))
        coin_list == set_marked_oracle(graph, R_kwargs(kw))
        ok == S # ErrCols /\ C.kind # "error" /\ coin_list # <<"Error">>
    IN /\ last' = Call("set_evolution", ok, kw)
       /\ shift' = IF S # ErrCols THEN S ELSE shift
       /\ coin' = IF S # ErrCols /\ C.kind # "error" THEN C ELSE coin
       /\ oracle_coin' = IF ok THEN coin_list ELSE oracle_coin
       /\ marked' = IF ok THEN super_set_marked(set_marked_vertices(R_kwargs(kw)))
                    ELSE marked
       /\ evolution' = IF S # ErrCols THEN NoneMat ELSE evolution
       /\ ret' = NoneMat
       /\ UNCHANGED <<graph, nbl, psi, step, psi0, trace, remote>>

\* the keyword sets given to set_evolution
KwargsGiven ==
    {Kwargs(sh[1], sh[2], co[1], co[2], ma[1], ma[2]) :
        sh \in {<<FALSE, "">>, <<TRUE, "flipflop">>, <<TRUE, "bad">>},
        co \in {<<FALSE, StrInput("")>>, <<TRUE, StrInput("-G")>>,
                <<TRUE, StrInput("foo")>>},
        ma \in {<<FALSE, ListInput(<<>>)>>, <<TRUE, ListInput(<<0>>)>>,
                <<TRUE, DictInput(<<Item("-I", TRUE, <<0>>)>>)>>,
                <<TRUE, DictInput(<<Item("foo", TRUE, <<0>>)>>)>>}}

SetEvolutionAction == \E kw \in KwargsGiven : SetEvolution(kw)

\* Coined(graph)
EvolutionInit ==
    /\ Init
    /\ graph \in {Cycle(3, "construction"), Graph(AdjPath)}

EvolutionNext == SetEvolutionAction \/ SetMarkedAction \/ GetEvolutionAction

EvolutionSpec == EvolutionInit /\ [][EvolutionNext]_vars

\* ------------------------------------------------- operations on the engine
\* A statement of an offloaded operation: an engine call binding its result
\* (a remote handle) to a name, an engine call returning a local value
\* (var = ""), or the del of a name.
Statement(op, var) == [op |-> op, var |-> var]

RECURSIVE RunEngine(_, _, _, _)
\* The statements run in order; the engine call number fail (if any) raises
\* and the rest is skipped.  held are the names bound to a remote handle.
RunEngine(prog, held, calls, fail) ==
    IF prog = <<>> THEN [failed |-> FALSE, held |-> held, calls |-> calls]
    ELSE LET st == Head(prog)
         IN IF st.op = "del"
            THEN RunEngine(Tail(prog), held \ {st.var}, calls, fail)
            ELSE IF calls + 1 = fail
            THEN [failed |-> TRUE, held |-> held, calls |-> calls + 1]
            ELSE RunEngine(Tail(prog),
                           IF st.var = "" THEN held ELSE held \cup {st.var},
                           calls + 1, fail)

\* the accelerated branch of get_evolution
EvolutionProgram ==
    <<Statement("send_matrix", "nbl_S"), Statement("send_matrix", "nbl_C"),
      Statement("multiply_matrices", "nbl_C"), Statement("del", "nbl_S"),
      Statement("retrieve_matrix", ""), Statement("del", "nbl_C")>>

RECURSIVE Repeat(_, _)
Repeat(prog, n) == IF n = 0 THEN <<>> ELSE prog \o Repeat(prog, n - 1)

\* an accelerated simulation: _prepare_engine, then for each saved state
\* save_interval steps of _simulate_step and the retrieval of the vector,
\* then the release of the handles
SimulateProgram(args) ==
    <<Statement("send_matrix", "S"), Statement("send_matrix", "C"),
      Statement("send_vector", "_simul_vec")>>
    \o Repeat(Repeat(<<Statement("multiply_matrix_vector", "_simul_vec"),
                       Statement("multiply_matrix_vector", "_simul_vec")>>,
                     args.save_interval)
              \o <<Statement("retrieve_vector", "")>>,
              args.num_steps \div args.save_interval)
    \o <<Statement("del", "S"), Statement("del", "C"),
         Statement("del", "_simul_vec")>>

RECURSIVE simulate_states(_, _, _, _, _, _)
\* the states saved by simulate after each save_interval steps
simulate_states(num_states, args, hpc, C, S, U) ==
    IF num_states = 0 THEN <<>>
    ELSE LET before == simulate_states(num_states - 1, args, hpc, C, S, U)
             vec == IF before = <<>> THEN args.initial_state
                    ELSE before[Len(before)]
         IN Append(before,
                   coined_simulate_step(args.save_interval, hpc, C, S, U, vec))

EngineInit ==
    /\ graph \in {Cycle(3, "construction"), Graph(AdjPaw)}
    /\ nbl \in BOOLEAN
    /\ shift = set_shift(graph, "flipflop")
    /\ coin = set_coin(graph, StrInput("G"))
    /\ \E m \in {ListInput(<<>>), DictInput(<<Item("-I", TRUE, <<0>>)>>)} :
          /\ oracle_coin = set_marked_oracle(graph, m)
          /\ marked = super_set_marked(set_marked_vertices(m))
    /\ last = Call("init", TRUE, [hpc |-> FALSE, fail |-> 0])
    /\ evolution = NoneMat
    /\ ret = NoneMat
    /\ psi = <<>>
    /\ step = 0
    /\ psi0 = 0
    /\ trace = <<>>
    /\ remote = NoRemote

\* get_evolution(hpc) with the engine call number fail (if any) raising
OffloadEvolution(hpc, fail) ==
    LET use_hpc == hpc_fallback(nbl, hpc)
        run == IF evolution = NoneMat /\ use_hpc
               THEN RunEngine(EvolutionProgram, {}, 0, fail)
               ELSE RunEngine(<<>>, {}, 0, fail)
        U == get_evolution(graph, nbl, hpc, shift, coin, oracle_coin, evolution)
    IN /\ Idle
       /\ remote' = Remote(run.held, run.calls)
       /\ IF run.failed \/ ~IsMatrix(U)
          THEN /\ last' = Call("get_evolution", FALSE, [hpc |-> hpc, fail |-> fail])
               /\ UNCHANGED <<evolution, ret>>
          ELSE /\ last' = Call("get_evolution", TRUE, [hpc |-> hpc, fail |-> fail])
               /\ evolution' = U
               /\ ret' = U
       /\ UNCHANGED <<graph, nbl, shift, coin, oracle_coin, marked, psi, step,
                      psi0, trace>>

OffloadEvolutionAction ==
    \E hpc \in BOOLEAN, fail \in 0 .. MaxFail : OffloadEvolution(hpc, fail)

\* simulate(...) as one call, with the engine call number fail (if any)
\* raising; a failed simulation returns no trace
OffloadSimulate(args, fail) ==
    LET use_hpc == use_engine(nbl, args.hpc)
        run == IF use_hpc THEN RunEngine(SimulateProgram(args), {}, 0, fail)
               ELSE RunEngine(<<>>, {}, 0, fail)
        U == IF use_hpc THEN evolution
             ELSE get_evolution(graph, nbl, FALSE, shift, coin, oracle_coin,
                                evolution)
        states == simulate_states(args.num_steps \div args.save_interval, args,
                      use_hpc, get_coin(graph, coin, oracle_coin),
                      ShiftMatrix(shift), U)
    IN /\ Idle
       /\ IF args.num_steps % args.save_interval # 0
          THEN /\ last' = Call("simulate", FALSE, args)
               /\ remote' = NoRemote
               /\ UNCHANGED <<evolution, psi, step, trace>>
          ELSE IF run.failed
          THEN /\ last' = Call("simulate", FALSE, args)
               /\ remote' = Remote({}, run.calls)
               /\ UNCHANGED <<evolution, psi, step, trace>>
          ELSE /\ last' = Call("simulate", TRUE, args)
               /\ remote' = Remote(run.held, run.calls)
               /\ evolution' = U
               /\ trace' = IF args.save_initial_state
                           THEN <<args.initial_state>> \o states ELSE states
               /\ psi' = IF states = <<>> THEN args.initial_state
                         ELSE states[Len(states)]
               /\ step' = args.num_steps
       /\ UNCHANGED <<graph, nbl, shift, coin, oracle_coin, marked, ret, psi0>>

OffloadSimulateAction ==
    \E num_steps \in 0 .. 2, save_interval \in {1, 2},
       save_initial_state \in BOOLEAN, hpc \in BOOLEAN,
       initial_state \in {ket(graph, 0),
                          state(graph, <<StateEntry(IntAmp(3), <<0>>, 2),
                                         StateEntry(IntAmp(4), <<1>>, 2)>>)},
       fail \in 0 .. MaxFail :
       OffloadSimulate(SimArgs(num_steps, save_interval, save_initial_state,
                               initial_state, hpc), fail)

EngineNext == OffloadEvolutionAction \/ OffloadSimulateAction

EngineSpec == EngineInit /\ [][EngineNext]_vars

\* ------------------------------------------------------------------ claims
NumArcs == number_of_arcs(graph)

\* the tail of the arc with the given label
TailOf(a) == arc(graph, a)[1]

LabelsWithTail(v) == {a \in Range0(NumArcs) : TailOf(a) = v}

\* the effective coin of the current slots
EffectiveCoin == get_coin(graph, coin, oracle_coin)

\* U is the product of the shift with csr indices cols and C: wherever S has
\* its entry 1 at (i, k), row i of U is row k of C
IsProduct(U, cols, C) ==
    /\ IsMatrix(U) /\ IsMatrix(C)
    /\ U.nr = Len(cols) /\ C.nr = Len(cols) /\ U.nc = C.nc
    /\ LET S == ShiftMatrix(cols)
       IN \A i \in 1 .. U.nr : \A k \in 1 .. C.nr :
              S.e[i][k] = One => U.e[i] = C.e[k]

Returned == last.op = "get_evolution" /\ last.ok

\* C1: a memoized evolution operator always equals S.C' of the current shift,
\* coin and oracle slots, and get_evolution returns that operator.
C1_EvolutionIsCurrent ==
    /\ evolution # NoneMat => IsProduct(evolution, shift, EffectiveCoin)
    /\ Returned => (ret = evolution /\ evolution # NoneMat)

C1_Witness ==
    /\ Returned
    /\ coin.kind = "list" /\ coin.names[1] = "minus_grover"
    /\ \E k \in 1 .. Len(oracle_coin) : oracle_coin[k] # ""
    /\ last.arg = "computed"

Setter(op) == op \in {"set_shift", "set_coin", "set_marked"}

\* C2 (as stated): every successful set_shift, set_coin or set_marked leaves
\* the memoized evolution operator unset.
C2_Original == (Setter(last.op) /\ last.ok) => evolution = NoneMat

\* C2 (amended): a successful set_shift or set_coin leaves the evolution
\* operator unset; a successful set_marked leaves it unset when the new or the
\* previous oracle map is non-empty, and leaves it as it was otherwise.
C2_SettersUnset ==
    [][ /\ (last'.ok /\ last'.op \in {"set_shift", "set_coin"})
            => evolution' = NoneMat
        /\ (last'.ok /\ last'.op = "set_marked")
            => IF oracle_coin # <<>> \/ oracle_coin' # <<>>
               THEN evolution' = NoneMat
               ELSE evolution' = evolution ]_vars

C2_Witness ==
    /\ last.op = "set_marked" /\ last.ok
    /\ oracle_coin = <<>> /\ marked # {}
    /\ evolution # NoneMat

\* C3: with a memoized operator get_evolution returns it unchanged and leaves
\* shift, coin, oracle and marked as they were; two get_evolution calls in a
\* row return the same operator.
C3_IdempotentRead ==
    [][ (last'.op = "get_evolution" /\ last'.ok)
        => /\ evolution # NoneMat
              => /\ ret' = evolution /\ evolution' = evolution
                 /\ UNCHANGED <<shift, coin, oracle_coin, marked>>
           /\ Returned => ret' = ret ]_vars

C3_Witness ==
    /\ Returned /\ last.arg = "memo"
    /\ \E k \in 1 .. Len(oracle_coin) : oracle_coin[k] # ""

\* the coin type in force at vertex v: the oracle's if there is one
EffectiveName(v) ==
    IF oracle_coin[v + 1] # "" THEN oracle_coin[v + 1] ELSE coin.names[v + 1]

\* C is block diagonal over the arc labels by tail, the block of each vertex v
\* being the catalogue block of EffectiveName(v) at dimension degree(v)
BlocksByName(C) ==
    /\ C.nr = NumArcs /\ C.nc = NumArcs
    /\ \A a \in Range0(NumArcs) : \A b \in Range0(NumArcs) :
          LET v == TailOf(a)
              labels == SetToSeq(LabelsWithTail(v))
              B == coin_funcs(EffectiveName(v), degree(graph, v))
          IN MatAt(C, a, b) =
                IF TailOf(b) = v
                THEN MatAt(B, IndexOf(labels, a), IndexOf(labels, b))
                ELSE Zero

\* C4: with a named coin and a non-empty oracle the effective coin has, at
\* every vertex, the catalogue block of the oracle's coin type where there is
\* an override and of the configured coin type elsewhere.
C4_OracleBlocks ==
    (coin.kind = "list" /\ oracle_coin # <<>> /\ IsMatrix(EffectiveCoin))
        => BlocksByName(EffectiveCoin)

C4_Witness ==
    /\ Returned
    /\ coin.kind = "list" /\ oracle_coin # <<>>
    /\ \E k \in 1 .. Len(oracle_coin) : oracle_coin[k] = ""
    /\ \E k \in 1 .. Len(oracle_coin) :
          oracle_coin[k] # "" /\ oracle_coin[k] # coin.names[k]

\* the stored coin as an operator, without any oracle
MaterializedCoin(c) ==
    IF c.kind = "matrix" THEN c.mat ELSE coin_list_to_explicit_coin(graph, c.names)

\* C5: set_marked changes neither the stored coin nor the shift, and after
\* set_marked([]) the effective coin is the operator of the stored coin, the
\* one in force before any marking.
C5_MarkedFrame ==
    [][ last'.op = "set_marked"
        => /\ coin' = coin /\ shift' = shift
           /\ (last'.ok /\ oracle_coin' = <<>> /\ marked' = {})
                 => get_coin(graph, coin', oracle_coin') = MaterializedCoin(coin) ]_vars

C5_Witness ==
    /\ last.op = "set_marked" /\ last.ok
    /\ oracle_coin = <<>> /\ marked = {}
    /\ coin.kind = "list" /\ coin.names[1] # coin.names[2]

\* C6 (as stated): with an explicit-matrix coin and a non-empty oracle the
\* effective coin, when get_coin returns one, keeps the dimension
\* num_arcs x num_arcs and, for every vertex without an override, equals the
\* stored matrix on the labels with that tail.
C6_Original ==
    (coin.kind = "matrix" /\ oracle_coin # <<>> /\ IsMatrix(EffectiveCoin))
        => /\ EffectiveCoin.nr = NumArcs /\ EffectiveCoin.nc = NumArcs
           /\ \A v \in Vertices(graph) :
                 oracle_coin[v + 1] = ""
                 => \A a \in LabelsWithTail(v) : \A b \in LabelsWithTail(v) :
                        MatAt(EffectiveCoin, a, b) = MatAt(coin.mat, a, b)

FlipFlopSet == last.op = "set_shift" /\ last.ok /\ last.arg = "flipflop"

\* C7 (as stated): the flip-flop shift maps the basis state of arc_label(v, u)
\* to the basis state of arc_label(u, v): the row of arc_label(u, v) has its 1
\* in the column of arc_label(v, u).
C7_Original ==
    FlipFlopSet
        => \A v \in Vertices(graph) :
              \A m \in 1 .. degree(graph, v) :
                 LET u == neighbors(graph, v)[m]
                 IN At(shift, arc_label(graph, u, v)) = arc_label(graph, v, u)

IsPermutation(cols) ==
    /\ \A i \in 1 .. Len(cols) : cols[i] \in Range0(Len(cols))
    /\ \A i \in 1 .. Len(cols) : \A j \in 1 .. Len(cols) :
          cols[i] = cols[j] => i = j

\* C8 (as stated): the flip-flop shift is a permutation matrix and S.S = I.
C8_Original ==
    FlipFlopSet
        => /\ Len(shift) = NumArcs
           /\ IsPermutation(shift)
           /\ \A a \in Range0(NumArcs) : At(shift, At(shift, a)) = a

\* C9: the persistent shift is a permutation of the arc labels whose row a has
\* its single 1 in the column of previous_arc(a), the label of the arc that
\* previous_arc gives for the arc (tail, head) of a.
C9_PersistentShift ==
    last.arg = "persistent"
        => /\ Len(shift) = NumArcs
           /\ IsPermutation(shift)
           /\ LET S == ShiftMatrix(shift)
              IN \A a \in Range0(NumArcs) :
                    LET t == arc(graph, a)
                        p == previous_arc_pair(graph, t[1], t[2])
                    IN /\ p # <<-1, -1>>
                       /\ At(shift, a) = arc_label(graph, p[1], p[2])
                       /\ \A k \in Range0(NumArcs) :
                             MatAt(S, a, k) = One <=> k = At(shift, a)

C9_Witness ==
    /\ last.arg = "persistent"
    /\ number_of_vertices(graph) = 4
    /\ psi # <<>>

\* the run of the scenario: persistent shift, identity coin, start at label 0
TransferRun ==
    /\ last.arg = "persistent"
    /\ coin.kind = "list" /\ coin.names[1] = "identity"
    /\ psi # <<>> /\ psi0 = 0
    /\ step = number_of_vertices(graph) - 1

\* C10 (as stated): on the 10-vertex cycle, after 9 steps the amplitude 1 is
\* at the last arc label and every other amplitude is 0.
C10_Original ==
    (TransferRun /\ number_of_vertices(graph) = 10)
        => psi = ket(graph, NumArcs - 1)

\* C10 (amended): after num_vert - 1 steps the amplitude 1 is at arc label
\* 2 * (num_vert - 1), the arc with the last vertex as tail in the direction
\* of the walk, and every other amplitude is 0.
C10_Transfer ==
    TransferRun => psi = ket(graph, 2 * (number_of_vertices(graph) - 1))

C10_Witness ==
    /\ TransferRun
    /\ number_of_vertices(graph) = 10
    /\ psi[19] = One

\* C11: whenever the oracle list is empty, as it is after every successful
\* set_marked with a plain list of vertices, the operator get_evolution
\* returns is the product of the shift with the operator of the stored coin,
\* no vertex having an oracle coin.
C11_ListMarking ==
    (Returned /\ oracle_coin = <<>>)
        => ret = MatMulShift(shift, MaterializedCoin(coin))

C11_Witness ==
    /\ Returned /\ last.arg = "computed"
    /\ oracle_coin = <<>> /\ marked # {}
    /\ coin.kind = "list" /\ coin.names[1] # coin.names[2]

\* the strings the documentation of set_coin lists
ValidStrings ==
    CoinNames \cup {"default", "d", "F", "G", "H", "I", "-F", "-G", "-H", "-I"}

\* the catalogue name a listed string stands for
CatalogueName(g, s) ==
    CASE s \in {"default", "d"} -> default_coin(g)
      [] s = "F" -> "fourier"
      [] s = "G" -> "grover"
      [] s = "H" -> "hadamard"
      [] s = "I" -> "identity"
      [] s = "-F" -> "minus_fourier"
      [] s = "-G" -> "minus_grover"
      [] s = "-H" -> "minus_hadamard"
      [] s = "-I" -> "minus_identity"
      [] OTHER -> s

CoinCalled(kind) == last.op = "set_coin" /\ last.arg.c.kind = kind

\* C12 (as stated): set_coin with a string stores the catalogue name of a
\* listed string at every vertex, and rejects every other string.
C12_Original ==
    CoinCalled("str")
        => LET s == last.arg.c.s
           IN IF s \in ValidStrings
              THEN /\ last.ok /\ coin.kind = "list"
                   /\ \A k \in 1 .. Len(coin.names) :
                         coin.names[k] = CatalogueName(graph, s)
              ELSE ~last.ok

\* the items of the dict given to set_coin
DictItems == last.arg.c.items

IsCatchAll(it) == it.iter /\ it.value = <<>>

Lists(it, v) == \E m \in 1 .. Len(it.value) : it.value[m] = v

ValidKeys ==
    \A k \in 1 .. Len(DictItems) : DictItems[k].key \in ValidStrings

\* C13: for a dict with exactly one catch-all key, every vertex listed under
\* a key has that key's coin name and every other vertex the catch-all's,
\* wherever the catch-all key stands among the keys.
C13_CatchAll ==
    (/\ CoinCalled("dict") /\ ValidKeys
     /\ Cardinality({k \in 1 .. Len(DictItems) : IsCatchAll(DictItems[k])}) = 1)
        => /\ last.ok /\ coin.kind = "list"
           /\ \A v \in Vertices(graph) : \A k \in 1 .. Len(DictItems) :
                 LET it == DictItems[k]
                     name == CatalogueName(graph, it.key)
                 IN /\ Lists(it, v) => coin.names[v + 1] = name
                    /\ (IsCatchAll(it)
                        /\ \A m \in 1 .. Len(DictItems) : ~Lists(DictItems[m], v))
                          => coin.names[v + 1] = name

C13_Witness ==
    /\ CoinCalled("dict") /\ last.ok
    /\ Len(DictItems) = 3 /\ IsCatchAll(DictItems[1])
    /\ coin.names[1] # coin.names[3]

\* C14: set_coin with a dict of valid keys fails, with the error of a coin
\* not specified for all vertices, exactly when some vertex is listed under
\* no key and there is no catch-all key; otherwise it stores one catalogue
\* name per vertex.
C14_Unresolved ==
    (CoinCalled("dict") /\ ValidKeys)
        => LET unassigned ==
                   {v \in Vertices(graph) :
                       \A k \in 1 .. Len(DictItems) :
                          ~Lists(DictItems[k], v) /\ ~IsCatchAll(DictItems[k])}
           IN IF unassigned # {}
              THEN /\ ~last.ok
                   /\ last.arg.err =
                         "ValueError: Coin was not specified for all vertices."
              ELSE /\ last.ok /\ last.arg.err = "" /\ coin.kind = "list"
                   /\ Len(coin.names) = number_of_vertices(graph)
                   /\ \A k \in 1 .. Len(coin.names) : coin.names[k] \in CoinNames

C14_Witness ==
    /\ CoinCalled("dict") /\ ~last.ok
    /\ Len(DictItems) = 3
    /\ last.arg.err = "ValueError: Coin was not specified for all vertices."

\* C15: on a graph without previous_arc, set_shift('persistent') and
\* set_shift('p') fail and leave the shift and the memoized evolution operator
\* as they were, and set_shift('default') succeeds with the flip-flop shift.
C15_PersistentUnsupported ==
    [][ \A key \in {"persistent", "p", "default"} :
           (~has_persistent_shift(graph) /\ SetShift(key))
               => IF key = "default"
                  THEN /\ last'.ok /\ last'.arg = "flipflop"
                       /\ shift' = set_flipflop_shift(graph)
                  ELSE /\ ~last'.ok
                       /\ shift' = shift /\ evolution' = evolution ]_vars

C15_Witness ==
    /\ ~has_persistent_shift(graph)
    /\ last.op = "set_shift" /\ ~last.ok
    /\ evolution # NoneMat

\* some arc (v, u) has no reverse (u, v)
IsAsymmetric(g) ==
    \E v \in Vertices(g) : \E m \in 1 .. degree(g, v) :
       LET u == neighbors(g, v)[m]
       IN \A k \in 1 .. degree(g, u) : neighbors(g, u)[k] # v

\* C16 (as stated): on a graph with asymmetric adjacency the flip-flop shift
\* is never built, by the constructor or by set_shift, and no shift that is
\* not a permutation is stored.
C16_Original ==
    IsAsymmetric(graph)
        => /\ ~(last.op = "init" /\ last.ok)
           /\ ~FlipFlopSet
           /\ shift # ErrCols => IsPermutation(shift)

ProbCalled == last.op = "probability_distribution"

\* the sum of the squared magnitudes of a state at a set of arc labels
SquaredAt(vec, labels) ==
    LET idx == SetToSeq(labels)
    IN RatSum([k \in 1 .. Len(idx) |-> <<vec[idx[k] + 1][1], vec[idx[k] + 1][2]>>])

\* C17: probability_distribution returns one row per input state (a single
\* one-dimensional state gives one row) and one column per vertex; the entry
\* of state i at vertex v is the sum of |amplitude|^2 over exactly the arc
\* labels whose arc has tail v, so every row sums to the sum of the squared
\* magnitudes of its state, which is 1 for a normalized state.
C17_Projection ==
    ProbCalled =>
        LET rows == last.arg.rows
        IN /\ ret.nr = (IF last.arg.ndim = 1 THEN 1 ELSE Len(rows))
           /\ ret.nc = number_of_vertices(graph)
           /\ Len(ret.e) = ret.nr
           /\ \A i \in 1 .. ret.nr :
                 /\ Len(ret.e[i]) = ret.nc
                 /\ \A v \in Vertices(graph) :
                       ret.e[i][v + 1] = SquaredAt(rows[i], LabelsWithTail(v))
                 /\ RatSum(ret.e[i]) = SquaredAt(rows[i], Range0(NumArcs))
                 /\ rows[i] = psi => RatSum(ret.e[i]) = <<1, 1>>

\* the distribution of a single normalized superposition over two vertices
C17_Witness ==
    /\ ProbCalled
    /\ last.arg.ndim = 1
    /\ last.arg.rows[1] = psi
    /\ ret.nr = 1
    /\ \E v \in Vertices(graph) : ret.e[1][v + 1] = <<1, 5>>

\* entry i of state() names arc label k
Names(entry, k) ==
    IF Len(entry.at) = 2 THEN arc(graph, k) = entry.at ELSE entry.at[1] = k

\* the amplitude of the last entry naming arc label k, 0 when there is none
LastWritten(args, k) ==
    LET hits == {i \in 1 .. Len(args) : Names(args[i], k)}
    IN IF hits = {} THEN Zero
       ELSE args[CHOOSE i \in hits : \A j \in hits : j <= i].amplitude

\* C18: state() puts each entry's amplitude at the arc label given, or at
\* arc_label(tail, head) of the arc given; of several entries naming one arc
\* the last one is kept (nothing is added up), every arc not named has
\* amplitude 0, and the result is that vector normalized.
C18_StateEntries ==
    last.op = "state" =>
        LET args == last.arg
            written == AsTuple([k \in 1 .. NumArcs |-> LastWritten(args, k - 1)])
        IN IF \E i \in 1 .. Len(args) : args[i].len = 3
           THEN ~last.ok
           ELSE IF \A k \in 1 .. NumArcs : written[k] = Zero
           THEN ~last.ok
           ELSE last.ok /\ psi = normalize(written)

\* 2 at label 0, then i at the arc of label 0, then 1 at the last label
C18_Witness ==
    /\ last.op = "state" /\ last.ok
    /\ Len(last.arg) = 3
    /\ last.arg[1].at = <<0>> /\ last.arg[1].amplitude = IntAmp(2)
    /\ last.arg[2].at = arc(graph, 0) /\ last.arg[2].amplitude = Amp(1, 1, 1, 4)
    /\ last.arg[3].at = <<NumArcs - 1>> /\ last.arg[3].amplitude = One
    /\ psi[1] = Amp(1, 2, 1, 4)

\* the local product S.C' of the current configuration
LocalU == MatMulShift(shift, EffectiveCoin)

Simulated == last.op = "simulate" /\ last.ok

\* every amplitude of a state is held exactly
Exact(vec) == \A k \in 1 .. Len(vec) : vec[k][1] >= 0

\* C19: a finished simulation with save_interval = 1 and save_initial_state
\* = True has saved num_steps + 1 states, the first one is the initial
\* state, and each saved state is U applied once to the one before.
C19_TraceConsistency ==
    (/\ Simulated
     /\ last.arg.save_interval = 1
     /\ last.arg.save_initial_state
     /\ step = last.arg.num_steps)
        => /\ Len(trace) = last.arg.num_steps + 1
           /\ trace[1] = last.arg.initial_state
           /\ \A i \in 1 .. last.arg.num_steps :
                 /\ Exact(trace[i + 1])
                 /\ MatVec(LocalU, trace[i]) = trace[i + 1]

\* three local steps from a superposition, with an oracle
C19_Witness ==
    /\ Simulated
    /\ ~last.arg.hpc
    /\ last.arg.save_interval = 1
    /\ last.arg.save_initial_state
    /\ last.arg.num_steps = MaxSteps
    /\ step = MaxSteps
    /\ oracle_coin # <<>>
    /\ trace[1] # ket(graph, 0) /\ trace[1] # ket(graph, NumArcs - 1)
    /\ trace[3] # trace[4]

RECURSIVE Applied(_, _, _)
\* U applied k times to a state
Applied(U, k, vec) == IF k = 0 THEN vec ELSE MatVec(U, Applied(U, k - 1, vec))

\* C20: with the engine available, get_evolution(hpc=True) returns the local
\* product S.C', and after k accelerated steps of a simulation the state is
\* U = S.C' applied k times to the initial state, oracle or not.
C20_BackendEquivalence ==
    /\ (Returned /\ nbl) => ret = LocalU
    /\ (Simulated /\ use_engine(nbl, last.arg.hpc))
          => /\ Exact(psi)
             /\ psi = Applied(LocalU, step, last.arg.initial_state)

\* three accelerated steps from a superposition on the paw graph, with an
\* oracle, ending in a state spread over several arcs
C20_Witness ==
    /\ Simulated /\ nbl /\ last.arg.hpc
    /\ step = MaxSteps
    /\ graph.kind = "graph"
    /\ oracle_coin # <<>>
    /\ last.arg.initial_state # ket(graph, 0)
    /\ last.arg.initial_state # ket(graph, NumArcs - 1)
    /\ Cardinality({k \in 1 .. NumArcs : psi[k] # Zero}) >= 3
    /\ evolution # NoneMat

\* the engine was asked for and is not available
FellBack == last.op \in {"get_evolution", "simulate"} /\ last.arg.hpc /\ ~nbl

\* C21: get_evolution or simulate with hpc=True and no engine available
\* makes no engine call, raises only where the local path raises (a
\* save_interval that does not divide num_steps) and gives the local result:
\* the operator S.C', the saved states U^(i * save_interval) applied to the
\* initial state.
C21_SilentFallback ==
    FellBack =>
        /\ remote.calls = 0
        /\ remote.handles = {}
        /\ last.op = "get_evolution" => (last.ok /\ ret = LocalU)
        /\ last.op = "simulate" =>
              LET a == last.arg
                  first == IF a.save_initial_state THEN 0 ELSE 1
              IN /\ last.ok <=> (a.num_steps % a.save_interval = 0)
                 /\ last.ok =>
                       /\ evolution = LocalU
                       /\ Len(trace) = a.num_steps \div a.save_interval + 1 - first
                       /\ \A i \in 1 .. Len(trace) :
                             trace[i] = Applied(LocalU,
                                           (i - 1 + first) * a.save_interval,
                                           a.initial_state)

\* two local steps asked for with hpc=True, with an oracle
C21_Witness ==
    /\ FellBack
    /\ last.op = "simulate" /\ last.ok
    /\ last.arg.num_steps = 2 /\ last.arg.save_interval = 1
    /\ oracle_coin # <<>>
    /\ Len(trace) = 2
    /\ trace[1] # trace[2]

\* C22 (as stated): when an operation has returned or failed it holds no
\* remote handle.
C22_Original == remote.handles = {}

\* the arcs (tail, head) of the graph, by its adjacency
Arcs(g) ==
    {<<t, neighbors(g, t)[m]>> : t \in Vertices(g), m \in 1 .. 2}

\* C23: on a cycle of 3 or more vertices arc(arc_label(t, h)) = (t, h) for
\* every arc (t, h), arc_label(arc(l)) = l for every label l below
\* 2 * num_vert, and the labels of the 2 * num_vert arcs are exactly
\* 0 .. 2 * num_vert - 1.
C23_ArcLabelling ==
    (graph.kind = "cycle" /\ number_of_vertices(graph) >= 3) =>
        LET num_vert == number_of_vertices(graph)
        IN /\ Cardinality(Arcs(graph)) = 2 * num_vert
           /\ \A th \in Arcs(graph) :
                 arc(graph, arc_label(graph, th[1], th[2])) = th
           /\ \A l \in Range0(2 * num_vert) :
                 /\ arc(graph, l) \in Arcs(graph)
                 /\ arc_label(graph, arc(graph, l)[1], arc(graph, l)[2]) = l
           /\ {arc_label(graph, th[1], th[2]) : th \in Arcs(graph)}
                 = Range0(2 * num_vert)

\* the largest cycle, its flip-flop shift built from the labels and a walk
\* started at the arc from the last vertex to vertex 0
C23_Witness ==
    /\ graph.kind = "cycle"
    /\ number_of_vertices(graph) = MaxSimCycle
    /\ last.arg = "flipflop"
    /\ psi # <<>>
    /\ psi0 = arc_label(graph, MaxSimCycle - 1, 0)
    /\ psi0 = 2 * (MaxSimCycle - 1)

\* C24: a set_coin call that raises (unknown name, list of the wrong
\* length, mapping leaving a vertex without coin, explicit coin that is not
\* 2-dimensional) changes neither the shift, the stored coin, the oracle list,
\* the marked vertices nor the memoized operator; a get_evolution right after
\* it returns the memoized operator if there is one, and S.C' of that
\* configuration.
C24_RejectedSetCoin ==
    [][ /\ last'.op = "set_coin" =>
              \A c \in CoinInputs(graph) :
                 (set_coin_raises(graph, c) # "" /\ SetCoin(c))
                     => /\ ~last'.ok
                        /\ shift' = shift /\ coin' = coin
                        /\ oracle_coin' = oracle_coin /\ marked' = marked
                        /\ evolution' = evolution
        /\ (last.op = "set_coin" /\ ~last.ok /\ last'.op = "get_evolution" /\ last'.ok)
              => /\ ret' = MatMulShift(shift, get_coin(graph, coin, oracle_coin))
                 /\ evolution # NoneMat => ret' = evolution ]_vars

\* a rejected set_coin on a walk with an oracle and a memoized operator
C24_Witness ==
    /\ last.op = "set_coin" /\ ~last.ok
    /\ evolution # NoneMat
    /\ oracle_coin # <<>>

\* C25: when set_evolution returns, the shift is the one of its shift
\* keyword, the coin the one of its coin keyword and the marked vertices and
\* oracle those of its marked keyword, each taken at its default ('default',
\* 'default', no vertex and no oracle) when the keyword is not passed,
\* whatever the configuration was before, and no evolution operator is
\* memoized; a walk constructed without keywords has a shift, a coin and no
\* oracle.
C25_SetEvolution ==
    /\ (last.op = "set_evolution" /\ last.ok) =>
          LET kw == last.arg
          IN /\ shift = set_shift(graph, IF kw.has_shift THEN kw.shift ELSE "default")
             /\ coin = set_coin(graph, IF kw.has_coin THEN kw.coin
                                       ELSE StrInput("default"))
             /\ ~kw.has_marked => (marked = {} /\ oracle_coin = <<>>)
             /\ kw.has_marked =>
                   /\ marked = super_set_marked(set_marked_vertices(kw.marked))
                   /\ oracle_coin = set_marked_oracle(graph, kw.marked)
             /\ evolution = NoneMat
    /\ last.op = "init" =>
          /\ IsPermutation(shift)
          /\ coin.kind = "list"
          /\ \A v \in Vertices(graph) : coin.names[v + 1] = default_coin(graph)
          /\ oracle_coin = <<>> /\ marked = {}
          /\ evolution = NoneMat

\* set_evolution(shift='flipflop') on a cycle: coin and marking at their
\* defaults
C25_Witness ==
    /\ last.op = "set_evolution" /\ last.ok
    /\ last.arg.has_shift /\ ~last.arg.has_coin /\ ~last.arg.has_marked
    /\ graph.kind = "cycle"
    /\ shift # set_shift(graph, "default")
    /\ coin = set_coin(graph, StrInput("default"))
    /\ oracle_coin = <<>>

\* C26 (as stated): after a successful set_coin the effective coin is a
\* num_arcs x num_arcs matrix whose entry (a, b) is zero whenever the arcs a
\* and b have different tails.
C26_Original ==
    (last.op = "set_coin" /\ last.ok) =>
        LET C == EffectiveCoin
        IN /\ IsMatrix(C)
           /\ C.nr = NumArcs /\ C.nc = NumArcs
           /\ \A a \in Range0(NumArcs) : \A b \in Range0(NumArcs) :
                 TailOf(a) # TailOf(b) => MatAt(C, a, b) = Zero

\* the vertices whose coin get_coin replaces by an oracle coin
OverriddenVertices ==
    {v \in Vertices(graph) : oracle_coin # <<>> /\ oracle_coin[v + 1] # ""}

\* C27 (as stated): after set_marked with a mapping (the only call that leaves
\* a non-empty list of oracle coins), the vertices that get an oracle coin in
\* the effective coin are exactly the vertices recorded as marked.
C27_Original ==
    (last.op = "set_marked" /\ last.ok /\ oracle_coin # <<>>) =>
        OverriddenVertices = marked

====
